---- MODULE Spec2Model ----
(***************************************************************************)
(* State-machine model of assets/js/interactive.js: the interactive        *)
(* widgets of the Blocksphere training slides (countdown timer, hash demo, *)
(* reveal answers, copy to clipboard, scoreboard, progress tracker, merkle *)
(* animation, bug highlighting).                                           *)
(*                                                                         *)
(* Texts of elements that the code parses or formats are sequences of      *)
(* one-character strings; other texts, colours and class names are plain   *)
(* strings.  The JavaScript value null is 0 where the other values are     *)
(* timer handles (positive integers), and "" is the empty style value.     *)
(***************************************************************************)
EXTENDS Integers, Sequences, FiniteSets, TLC

(***************************************************************************)
(* Bounds of the model                                                     *)
(***************************************************************************)
\* largest seconds argument of startTimer / resetTimer
MaxSeconds == 3
\* number of startTimer calls that create an interval
MaxStarts == 3
\* how far below zero a (stray) tick sequence is followed
MaxUnderflow == 2
\* number of times updateHash is bound to the hash input
MaxBindings == 2
\* number of animateNumber intervals created
MaxAnimations == 2
\* largest absolute value a score is driven to
MaxScore == 6
\* copies of one button under way (clipboard writes and restore timeouts)
MaxCopies == 2
\* number of click listeners initRevealAnswers binds to one element
MaxInits == 2
\* longest hash string given to truncateHash
MaxHashLen == 8
\* largest startChars and endChars given to truncateHash
MaxChars == 2

(***************************************************************************)
(* The host page                                                           *)
(***************************************************************************)
\* an identifier that resolves to no element
MissingId == "missing"
TimerDisplayIds == {"timer-display"}
\* values the hash input can hold; "\ud800" makes toUtf8Bytes throw
InputValues == {"", "a", "b", "\\ud800"}
\* slides of the deck: one carries [data-hash-input]/[data-hash-output]
Slides == {"slide-hash", "slide-plain"}
\* the .reveal-answer elements, and the slide each is on
RevealAnswerIds == {"answer1", "answer2"}
AnswerSlide == [id \in RevealAnswerIds |->
                   IF id = "answer1" THEN "slide-hash" ELSE "slide-plain"]
\* the .code-copy-btn controls: one inside a .code-block with a code element,
\* one outside any
CopyButtons == {"btn-code", "btn-orphan"}
OriginalLabel == "Copy"
\* the .progress-item elements
ProgressItemIds == {"item1", "item2"}
\* an element with an id that is no .progress-item
OtherElementIds == {"heading"}
\* the merkle containers and the number of .merkle-step elements of each
MerkleContainerIds == {"tree1", "tree2"}
MerkleSteps == [c \in MerkleContainerIds |-> IF c = "tree1" THEN 2 ELSE 1]
\* the code blocks and the number of .code-line elements of each
CodeBlockIds == {"code1"}
CodeLines == [c \in CodeBlockIds |-> 2]

(***************************************************************************)
(* Strings                                                                 *)
(***************************************************************************)
Digits == <<"0", "1", "2", "3", "4", "5", "6", "7", "8", "9">>

IsDigit(c) == \E d \in 1..10 : Digits[d] = c

DigitVal(c) == (CHOOSE d \in 1..10 : Digits[d] = c) - 1

RECURSIVE NatToString(_)
NatToString(n) ==
    IF n < 10 THEN <<Digits[n + 1]>>
    ELSE NatToString(n \div 10) \o <<Digits[(n % 10) + 1]>>

\* Number.prototype.toString of an integer
NumToString(n) == IF n < 0 THEN <<"-">> \o NatToString(-n) ELSE NatToString(n)

\* padStart left out
PadStartNone(s, len, c) == s

RECURSIVE PadStart(_, _, _)
\* String.prototype.padStart(len, c)
PadStart(s, len, c) == IF Len(s) >= len THEN s ELSE PadStart(<<c>> \o s, len, c)

\* the % operator of JavaScript: the sign of the result is the dividend's
JsRem(a, b) == IF a >= 0 THEN a % b ELSE -((-a) % b)

\* is the text the decimal form of an integer (optional sign, then digits)
IsIntText(s) ==
    LET body == IF s # <<>> /\ s[1] \in {"-", "+"} THEN Tail(s) ELSE s
    IN body # <<>> /\ \A i \in 1..Len(body) : IsDigit(body[i])

RECURSIVE DigitsValue(_)
DigitsValue(s) ==
    IF s = <<>> THEN 0
    ELSE 10 * DigitsValue(SubSeq(s, 1, Len(s) - 1)) + DigitVal(s[Len(s)])

\* parseInt(s) || 0 for a text that is an integer or has no leading number
ParseIntOrZero(s) ==
    IF ~IsIntText(s) THEN 0
    ELSE IF s[1] = "-" THEN -DigitsValue(Tail(s))
    ELSE IF s[1] = "+" THEN DigitsValue(Tail(s))
    ELSE DigitsValue(s)

(***************************************************************************)
(* State                                                                   *)
(***************************************************************************)
VARIABLES
    timerInterval,    \* let timerInterval: handle of the countdown, 0 = null
    timerSeconds,     \* let timerSeconds
    intervals,        \* the countdown intervals the browser still fires
    nextHandle,       \* the handle the next setInterval returns
    completions,      \* handle -> times that call's onComplete was invoked
    timerDisplay,     \* display id -> [text, color, animation]
    ethersLoaded,     \* typeof ethers !== 'undefined'
    hashInput,        \* value of the hash input element
    hashOutput,       \* [text, opacity] of the hash output element
    hashListeners,    \* 'input' listeners (updateHash closures) on the input
    microtasks,       \* continuations of awaits, run before the next task
    cmpInput,         \* values of the two inputs of the hash comparison
    cmpOutput,        \* [text, color] of the two outputs of the comparison
    cmpListeners,     \* 'input' listeners (updateHashes) on each of the inputs
    scores,           \* let scores = { hacker, security }
    scoreDisplays,    \* which of #score-hacker, #score-security the page has
    scoreText,        \* team -> textContent of its score display
    animations,       \* live animateNumber intervals, oldest first
    clipboard,        \* navigator.clipboard: "ok", "fail" or "any" outcome
    copyLabel,        \* button -> textContent
    copyBackground,   \* button -> style.background
    clipboardWrites,  \* button -> writeText promises not yet settled
    copyTimeouts,     \* pending setTimeout(restore, 2000), oldest first
    copyListeners,    \* button -> click listeners bound by initCopyButtons
    domLoaded,        \* has DOMContentLoaded fired
    revealed,         \* the .reveal-answer elements with class "revealed"
    revealListeners,  \* element -> click listeners bound by initRevealAnswers
    lastClick,        \* the last click on an answer: target, state before, after
    currentItems,     \* elements with class "current"
    completedItems,   \* elements with class "completed"
    merkleAnimationStep, \* let merkleAnimationStep
    merkleVisible,    \* container -> indices of its steps with class "visible"
    bugHighlights,    \* code block -> indices of its lines with "bug-highlight"
    truncated         \* a truncateHash call: arguments, and result once returned

timerVars == <<timerInterval, timerSeconds, intervals, completions,
               timerDisplay>>
hashVars == <<ethersLoaded, hashInput, hashOutput, hashListeners, microtasks>>
cmpVars == <<cmpInput, cmpOutput, cmpListeners>>
scoreVars == <<scores, scoreDisplays, scoreText, animations>>
copyVars == <<clipboard, copyLabel, copyBackground, clipboardWrites,
              copyTimeouts, copyListeners>>
revealVars == <<revealed, revealListeners, lastClick>>
progressVars == <<currentItems, completedItems>>
merkleVars == <<merkleAnimationStep, merkleVisible>>
bugVars == <<bugHighlights>>
utilVars == <<truncated>>
vars == <<nextHandle, timerVars, hashVars, cmpVars, scoreVars, copyVars,
          domLoaded, revealVars, progressVars, merkleVars, bugVars, utilVars>>

\* what the operations of one widget leave alone
exceptTimer == <<hashVars, scoreVars, copyVars, domLoaded, revealVars,
    progressVars, merkleVars, bugVars, cmpVars, utilVars>>
exceptHash == <<nextHandle, timerVars, scoreVars, copyVars, domLoaded,
    revealVars, progressVars, merkleVars, bugVars, cmpVars, utilVars>>
exceptTimerHash == <<nextHandle, scoreVars, copyVars, domLoaded, revealVars,
    progressVars, merkleVars, bugVars, cmpVars, utilVars>>
exceptScore == <<timerVars, hashVars, copyVars, domLoaded, revealVars,
    progressVars, merkleVars, bugVars, cmpVars, utilVars>>
exceptCopy == <<nextHandle, timerVars, hashVars, scoreVars, domLoaded,
    revealVars, progressVars, merkleVars, bugVars, cmpVars, utilVars>>
exceptReveal == <<nextHandle, timerVars, hashVars, scoreVars, copyVars,
    domLoaded, progressVars, merkleVars, bugVars, cmpVars, utilVars>>
exceptProgress == <<nextHandle, timerVars, hashVars, scoreVars, copyVars,
    domLoaded, revealVars, merkleVars, bugVars, cmpVars, utilVars>>
exceptMerkle == <<nextHandle, timerVars, hashVars, scoreVars, copyVars,
    domLoaded, revealVars, progressVars, bugVars, cmpVars, utilVars>>
exceptBug == <<nextHandle, timerVars, hashVars, scoreVars, copyVars,
    domLoaded, revealVars, progressVars, merkleVars, cmpVars, utilVars>>
exceptCmp == <<nextHandle, timerVars, ethersLoaded, hashInput, hashOutput,
    hashListeners, scoreVars, copyVars, domLoaded, revealVars, progressVars,
    merkleVars, bugVars, utilVars>>
exceptUtil == <<nextHandle, timerVars, hashVars, cmpVars, scoreVars, copyVars,
    domLoaded, revealVars, progressVars, merkleVars, bugVars>>

(***************************************************************************)
(* HASH DEMO                                                               *)
(***************************************************************************)
\* ethers.toUtf8Bytes rejects a string with a lone surrogate
KeccakThrows(input) == input = "\\ud800"

\* ethers.keccak256(ethers.toUtf8Bytes(input)), abbreviated to 8 hex digits
Keccak(input) ==
    CASE input = "" -> "0xc5d24601"
      [] input = "a" -> "0x3ac22516"
      [] input = "b" -> "0xb5553de3"
      [] OTHER -> "0x"

\* the catch block is left out: the exception reaches the caller
computeKeccakHashUncaught(input) ==
    IF ~ethersLoaded THEN "Error: ethers.js not loaded"
    ELSE IF KeccakThrows(input) THEN "rejected: invalid codepoint"
    ELSE Keccak(input)

\* the string the promise of computeKeccakHash(input) is fulfilled with
computeKeccakHash(input) ==
    IF ~ethersLoaded THEN "Error: ethers.js not loaded"
    ELSE IF KeccakThrows(input) THEN "Error computing hash"
    ELSE Keccak(input)

\* the continuation of `await computeKeccakHash(input)` in function fn:
\* stage is the await it stands at, hash1 the result of an earlier await
Awaiting(fn, stage, input, hash1) ==
    [fn |-> fn, stage |-> stage, input |-> input,
     hash |-> computeKeccakHash(input), hash1 |-> hash1]

PlaceholderText == "Enter text above to see its hash..."

\* the placeholder is not written
updateHashOutputKeep(value) == hashOutput

\* the part of updateHash before its await, as the next hashOutput
updateHashOutput(value) ==
    IF value = ""
    THEN [text |-> PlaceholderText, opacity |-> "0.5"]
    ELSE hashOutput

\* n calls of updateHash up to their await, as the next microtasks
updateHashTasks(value, n) ==
    IF value = "" THEN microtasks
    ELSE microtasks \o [i \in 1..n |-> Awaiting("updateHash", 1, value, "")]

\* the event loop takes the next task only when no microtask is pending
TaskReady == microtasks = <<>>

\* initHashDemo on the page's hash input and output, which both exist
initHashDemo ==
    /\ hashListeners' = hashListeners + 1
    /\ hashOutput' = updateHashOutput(hashInput)
    /\ microtasks' = updateHashTasks(hashInput, 1)
    /\ UNCHANGED <<ethersLoaded, hashInput>>

\* an 'input' event of the hash input, whose value has become value: every
\* bound updateHash runs up to its await
InputChange(value) ==
    /\ TaskReady
    /\ value # hashInput
    /\ hashInput' = value
    /\ hashOutput' = IF hashListeners > 0 THEN updateHashOutput(value)
                     ELSE hashOutput
    /\ microtasks' = updateHashTasks(value, hashListeners)
    /\ UNCHANGED <<ethersLoaded, hashListeners>>
    /\ UNCHANGED exceptHash

\* updateHash after its await
HashContinue ==
    /\ microtasks # <<>>
    /\ Head(microtasks).fn = "updateHash"
    /\ hashOutput' = [text |-> Head(microtasks).hash, opacity |-> "1"]
    /\ microtasks' = Tail(microtasks)
    /\ UNCHANGED <<ethersLoaded, hashInput, hashListeners>>
    /\ UNCHANGED exceptHash

NeutralColor == "#4a9ea4"
FirstDiffColor == "#ef4444"
SecondDiffColor == "#10b981"

\* the two hashes are never told apart
highlightAlwaysNeutral(hash1, hash2) == <<NeutralColor, NeutralColor>>

\* highlightHashDifferences, as the colours of the first and second output
highlightHashDifferences(hash1, hash2) ==
    IF hash1 # hash2 THEN <<FirstDiffColor, SecondDiffColor>>
    ELSE <<NeutralColor, NeutralColor>>

\* n calls of updateHashes up to their first await, as the next microtasks
updateHashesTasks(value1, n) ==
    microtasks \o [i \in 1..n |-> Awaiting("updateHashes", 1, value1, "")]

\* initHashComparison on two inputs and two outputs that all exist
initHashComparison ==
    /\ TaskReady
    /\ cmpListeners < MaxBindings
    /\ cmpListeners' = cmpListeners + 1
    /\ microtasks' = updateHashesTasks(cmpInput[1], 1)
    /\ UNCHANGED <<cmpInput, cmpOutput>>
    /\ UNCHANGED exceptCmp

\* an 'input' event of input which (1 or 2) of the comparison, whose value
\* has become value: every bound updateHashes runs up to its first await
CmpInputChange(which, value) ==
    /\ TaskReady
    /\ value # cmpInput[which]
    /\ cmpInput' = [cmpInput EXCEPT ![which] = value]
    /\ microtasks' = updateHashesTasks(cmpInput'[1], cmpListeners)
    /\ UNCHANGED <<cmpOutput, cmpListeners>>
    /\ UNCHANGED exceptCmp

\* updateHashes after its first await (it calls computeKeccakHash on the
\* second input) or after its second (it writes the outputs)
HashesContinue ==
    /\ microtasks # <<>>
    /\ Head(microtasks).fn = "updateHashes"
    /\ LET m == Head(microtasks)
       IN IF m.stage = 1
          THEN /\ microtasks' = Append(Tail(microtasks),
                      Awaiting("updateHashes", 2, cmpInput[2], m.hash))
               /\ UNCHANGED cmpOutput
          ELSE /\ microtasks' = Tail(microtasks)
               /\ cmpOutput' =
                      LET colors == highlightHashDifferences(m.hash1, m.hash)
                      IN <<[text |-> m.hash1, color |-> colors[1]],
                           [text |-> m.hash, color |-> colors[2]]>>
    /\ UNCHANGED <<cmpInput, cmpListeners>>
    /\ UNCHANGED exceptCmp

(***************************************************************************)
(* CHALLENGE TIMER                                                         *)
(***************************************************************************)
TimesUpText == <<"T", "I", "M", "E", "'", "S", " ", "U", "P", "!">>
PulseAnimation == "pulse 0.5s infinite"
WarningColor == "#f59e0b"
DangerColor == "#ef4444"

\* document.getElementById of a timer display: does the id resolve
TimerDisplayExists(displayId) == displayId \in TimerDisplayIds

\* clearInterval(handle) on a set of live intervals
clearInterval(ivs, handle) == {iv \in ivs : iv.id # handle}

\* the text updateTimerDisplay writes for timerSeconds = secs
updateTimerDisplay(secs) ==
    NumToString(secs \div 60) \o <<":">>
        \o PadStart(NumToString(JsRem(secs, 60)), 2, "0")

\* the existing timer is left running
ClearExistingNever(ivs, handle) == ivs

\* startTimer, "Clear any existing timer"
ClearExisting(ivs, handle) ==
    IF handle # 0 THEN clearInterval(ivs, handle) ELSE ivs

\* the handle of the running countdown that a startTimer call finds, or 0
Replaced(ivs, handle) ==
    IF \E iv \in ivs : iv.id = handle THEN handle ELSE 0

startTimer(displayId, seconds, hasCallback) ==
    /\ TaskReady
    /\ IF ~TimerDisplayExists(displayId)
       THEN UNCHANGED vars
       ELSE /\ nextHandle <= MaxStarts
            /\ timerSeconds' = seconds
            /\ timerDisplay' = [timerDisplay EXCEPT
                   ![displayId].text = updateTimerDisplay(seconds)]
            /\ intervals' = ClearExisting(intervals, timerInterval) \cup
                   {[id |-> nextHandle, display |-> displayId,
                     hasCallback |-> hasCallback, n |-> seconds, ticks |-> 0,
                     replaced |-> Replaced(intervals, timerInterval)]}
            /\ timerInterval' = nextHandle
            /\ nextHandle' = nextHandle + 1
            /\ UNCHANGED completions
            /\ UNCHANGED exceptTimer

\* the warning at 30 seconds is left out
TickColorDangerOnly(color, secs) ==
    IF secs <= 10 THEN DangerColor ELSE color

\* the colour of the display after a tick that leaves secs seconds
TickColor(color, secs) ==
    IF secs <= 10 THEN DangerColor
    ELSE IF secs = 30 THEN WarningColor
    ELSE color

\* the countdown ends one tick late
ExpiredBelowZero(secs) == secs < 0

\* does the tick that leaves secs seconds end the countdown
Expired(secs) == secs <= 0

\* one firing of the callback that startTimer gave to setInterval
TimerTick(iv) ==
    /\ TaskReady
    /\ iv \in intervals
    /\ timerSeconds > -MaxUnderflow
    /\ LET secs == timerSeconds - 1
           ticked == (intervals \ {iv}) \cup {[iv EXCEPT !.ticks = @ + 1]}
           d == timerDisplay[iv.display]
       IN /\ timerSeconds' = secs
          /\ intervals' = IF Expired(secs)
                          THEN clearInterval(ticked, timerInterval)
                          ELSE ticked
          /\ timerInterval' = IF Expired(secs) THEN 0 ELSE timerInterval
          /\ timerDisplay' = [timerDisplay EXCEPT ![iv.display] =
                 [text |-> IF Expired(secs) THEN TimesUpText
                           ELSE updateTimerDisplay(secs),
                  animation |-> IF Expired(secs) THEN PulseAnimation
                                ELSE d.animation,
                  color |-> TickColor(d.color, secs)]]
          /\ completions' = IF Expired(secs) /\ iv.hasCallback
                            THEN [completions EXCEPT ![iv.id] = @ + 1]
                            ELSE completions
    /\ UNCHANGED <<nextHandle, exceptTimer>>

\* the handle is dropped without clearInterval
stopTimerKeepsInterval ==
    /\ intervals' = intervals
    /\ timerInterval' = 0

\* the body of stopTimer, as the next timerInterval and intervals
stopTimerEffect ==
    /\ intervals' = IF timerInterval # 0
                    THEN clearInterval(intervals, timerInterval)
                    ELSE intervals
    /\ timerInterval' = 0

stopTimer ==
    /\ TaskReady
    /\ stopTimerEffect
    /\ UNCHANGED <<timerSeconds, completions, timerDisplay>>
    /\ UNCHANGED <<nextHandle, exceptTimer>>

resetTimer(displayId, seconds) ==
    /\ TaskReady
    /\ stopTimerEffect
    /\ IF TimerDisplayExists(displayId)
       THEN /\ timerSeconds' = seconds
            /\ timerDisplay' = [timerDisplay EXCEPT ![displayId] =
                   [text |-> updateTimerDisplay(seconds),
                    color |-> "", animation |-> ""]]
       ELSE UNCHANGED <<timerSeconds, timerDisplay>>
    /\ UNCHANGED completions
    /\ UNCHANGED <<nextHandle, exceptTimer>>

\* the handler of Reveal's 'slidechanged' event
SlideChanged(slide) ==
    /\ TaskReady
    /\ stopTimerEffect
    /\ UNCHANGED <<timerSeconds, completions, timerDisplay>>
    /\ IF slide = "slide-hash"
       THEN /\ hashListeners < MaxBindings
            /\ initHashDemo
       ELSE UNCHANGED hashVars
    /\ UNCHANGED exceptTimerHash

(***************************************************************************)
(* SCOREBOARD                                                              *)
(***************************************************************************)
Teams == {"hacker", "security"}
\* team arguments of the calls: the two keys of scores and an unknown one
TeamArgs == Teams \cup {"referee"}
\* const steps = 20 of animateNumber
AnimationSteps == 20

\* the team key is not checked
HasTeamAlways(team) == TRUE

\* scores.hasOwnProperty(team)
HasTeam(team) == team \in DOMAIN scores

\* scores[team] + points: NaN for a key the object lacks (undefined + points)
ScoreAdd(team, points) ==
    IF team \in DOMAIN scores THEN scores[team] + points ELSE "NaN"

\* scores after scores[team] = value: an assignment adds a key the object lacks
ScorePut(team, value) ==
    [k \in DOMAIN scores \cup {team} |-> IF k = team THEN value ELSE scores[k]]

\* Math.round(currentValue + (diff / steps) * step), halves rounded up
AnimationValue(currentValue, targetValue, step) ==
    (AnimationSteps * currentValue + (targetValue - currentValue) * step
        + AnimationSteps \div 2) \div AnimationSteps

\* the interval animateNumber(element of team, targetValue) creates
animateNumber(team, targetValue) ==
    [team |-> team, currentValue |-> ParseIntOrZero(scoreText[team]),
     targetValue |-> targetValue, step |-> 0]

\* has the page the score display of the team
ScoreDisplayExists(team) == team \in scoreDisplays

\* the intervals updateScoreDisplay creates for the scores newScores
updateScoreDisplay(newScores) ==
    (IF ScoreDisplayExists("hacker")
     THEN <<animateNumber("hacker", newScores["hacker"])>> ELSE <<>>)
    \o (IF ScoreDisplayExists("security")
        THEN <<animateNumber("security", newScores["security"])>> ELSE <<>>)

\* a score call that stores newScores and refreshes the display
StoreAndRefresh(newScores) ==
    /\ scores' = newScores
    /\ \A t \in Teams : newScores[t] \in -MaxScore..MaxScore
    /\ LET created == updateScoreDisplay(newScores)
       IN /\ nextHandle + Len(created) <= MaxAnimations + 1
          /\ animations' = animations \o created
          /\ nextHandle' = nextHandle + Len(created)
    /\ UNCHANGED <<scoreDisplays, scoreText>>

updateScore(team, points) ==
    /\ TaskReady
    /\ IF HasTeam(team)
       THEN StoreAndRefresh(ScorePut(team, ScoreAdd(team, points)))
       ELSE UNCHANGED <<nextHandle, scoreVars>>
    /\ UNCHANGED exceptScore

setScore(team, points) ==
    /\ TaskReady
    /\ IF HasTeam(team)
       THEN StoreAndRefresh(ScorePut(team, points))
       ELSE UNCHANGED <<nextHandle, scoreVars>>
    /\ UNCHANGED exceptScore

resetScores ==
    /\ TaskReady
    /\ StoreAndRefresh([scores EXCEPT !["hacker"] = 0, !["security"] = 0])
    /\ UNCHANGED exceptScore

\* setInterval(..., duration / steps): intervals of one period fire in the
\* order they were created, so the k-th firing of an interval comes after the
\* k-th firing of every older one
MayFire(i) == \A j \in 1..(i - 1) : animations[j].step > animations[i].step

\* the sequence without its i-th element
RemoveAt(seq, i) == SubSeq(seq, 1, i - 1) \o SubSeq(seq, i + 1, Len(seq))

\* the interval is cleared one firing late
AnimationDoneLate(step) == step > AnimationSteps

\* if (step >= steps)
AnimationDone(step) == step >= AnimationSteps

\* the text a firing leaves: the interpolated value, or the target at the end
AnimationText(a, step) ==
    IF AnimationDone(step) THEN NumToString(a.targetValue)
    ELSE NumToString(AnimationValue(a.currentValue, a.targetValue, step))

\* one firing of the callback that animateNumber gave to setInterval
AnimationTick(i) ==
    /\ TaskReady
    /\ i \in 1..Len(animations)
    /\ MayFire(i)
    /\ LET a == animations[i]
           step == a.step + 1
       IN /\ scoreText' = [scoreText EXCEPT ![a.team] = AnimationText(a, step)]
          /\ animations' = IF AnimationDone(step)
                            THEN RemoveAt(animations, i)
                            ELSE [animations EXCEPT ![i].step = step]
    /\ UNCHANGED <<scores, scoreDisplays>>
    /\ UNCHANGED <<nextHandle, exceptScore>>

(***************************************************************************)
(* REVEAL ANSWER FUNCTIONALITY                                             *)
(***************************************************************************)
\* document.getElementById of an answer: does the id resolve
AnswerExists(elementId) == elementId \in RevealAnswerIds

\* el.addEventListener('click', ...) on every .reveal-answer element
BindRevealListeners == [id \in RevealAnswerIds |-> revealListeners[id] + 1]

initRevealAnswers ==
    /\ TaskReady
    /\ \A id \in RevealAnswerIds : revealListeners[id] < MaxInits
    /\ revealListeners' = BindRevealListeners
    /\ UNCHANGED <<revealed, lastClick>>
    /\ UNCHANGED exceptReveal

\* classList.toggle('revealed') run once by each of n listeners
ToggleTimes(isRevealed, n) == IF n % 2 = 1 THEN ~isRevealed ELSE isRevealed

\* a click on a .reveal-answer element: every bound listener runs
ClickRevealAnswer(elementId) ==
    /\ TaskReady
    /\ elementId \in RevealAnswerIds
    /\ revealed' = IF ToggleTimes(elementId \in revealed,
                                  revealListeners[elementId])
                   THEN revealed \cup {elementId}
                   ELSE revealed \ {elementId}
    /\ lastClick' = [target |-> elementId,
                     listeners |-> revealListeners[elementId],
                     before |-> elementId \in revealed,
                     after |-> elementId \in revealed']
    /\ UNCHANGED revealListeners
    /\ UNCHANGED exceptReveal

revealAnswer(elementId) ==
    /\ TaskReady
    /\ revealed' = IF AnswerExists(elementId)
                   THEN revealed \cup {elementId} ELSE revealed
    /\ UNCHANGED <<revealListeners, lastClick>>
    /\ UNCHANGED exceptReveal

hideAnswer(elementId) ==
    /\ TaskReady
    /\ revealed' = IF AnswerExists(elementId)
                   THEN revealed \ {elementId} ELSE revealed
    /\ UNCHANGED <<revealListeners, lastClick>>
    /\ UNCHANGED exceptReveal

\* revealAllAnswers when Reveal.getCurrentSlide() returns the slide, or null
revealAllAnswers(currentSlide) ==
    /\ TaskReady
    /\ revealed' = revealed \cup
           {id \in RevealAnswerIds : AnswerSlide[id] = currentSlide}
    /\ UNCHANGED <<revealListeners, lastClick>>
    /\ UNCHANGED exceptReveal

(***************************************************************************)
(* COPY TO CLIPBOARD                                                       *)
(***************************************************************************)
CopiedLabel == "Copied!"
FailedLabel == "Failed"
SuccessBackground == "#10b981"

\* buttonElement.closest('.code-block') has a code element
HasCode(button) == button = "btn-code"

\* copies of the button that have neither failed nor been restored yet
CopiesUnderWay(button) ==
    clipboardWrites[button]
        + Cardinality({i \in 1..Len(copyTimeouts) :
                          copyTimeouts[i].button = button})

\* copyCode(buttonElement) called n times, as the next clipboardWrites
copyCodeWrites(button, n) ==
    IF HasCode(button)
    THEN [clipboardWrites EXCEPT ![button] = @ + n]
    ELSE clipboardWrites

copyCode(button) ==
    /\ TaskReady
    /\ CopiesUnderWay(button) < MaxCopies
    /\ clipboardWrites' = copyCodeWrites(button, 1)
    /\ UNCHANGED <<clipboard, copyLabel, copyBackground, copyTimeouts,
                   copyListeners>>
    /\ UNCHANGED exceptCopy

\* a click on a .code-copy-btn: every listener of initCopyButtons runs
ClickCopyButton(button) ==
    /\ TaskReady
    /\ copyListeners[button] > 0
    /\ CopiesUnderWay(button) + copyListeners[button] <= MaxCopies
    /\ clipboardWrites' = copyCodeWrites(button, copyListeners[button])
    /\ UNCHANGED <<clipboard, copyLabel, copyBackground, copyTimeouts,
                   copyListeners>>
    /\ UNCHANGED exceptCopy

\* the label the then-callback keeps for the restore
OriginalText(button) == copyLabel[button]

\* writeText resolved: the then-callback of copyCode
ClipboardResolved(button) ==
    /\ TaskReady
    /\ clipboard # "fail"
    /\ clipboardWrites[button] > 0
    /\ clipboardWrites' = [clipboardWrites EXCEPT ![button] = @ - 1]
    /\ copyLabel' = [copyLabel EXCEPT ![button] = CopiedLabel]
    /\ copyBackground' = [copyBackground EXCEPT ![button] = SuccessBackground]
    /\ copyTimeouts' = Append(copyTimeouts,
           [button |-> button, originalText |-> OriginalText(button)])
    /\ UNCHANGED <<clipboard, copyListeners>>
    /\ UNCHANGED exceptCopy

\* writeText rejected: the catch-callback of copyCode
ClipboardRejected(button) ==
    /\ TaskReady
    /\ clipboard # "ok"
    /\ clipboardWrites[button] > 0
    /\ clipboardWrites' = [clipboardWrites EXCEPT ![button] = @ - 1]
    /\ copyLabel' = [copyLabel EXCEPT ![button] = FailedLabel]
    /\ UNCHANGED <<clipboard, copyBackground, copyTimeouts, copyListeners>>
    /\ UNCHANGED exceptCopy

\* the oldest setTimeout(..., 2000) of copyCode fires
CopyRestore ==
    /\ TaskReady
    /\ copyTimeouts # <<>>
    /\ LET t == Head(copyTimeouts)
       IN /\ copyLabel' = [copyLabel EXCEPT ![t.button] = t.originalText]
          /\ copyBackground' = [copyBackground EXCEPT ![t.button] = ""]
    /\ copyTimeouts' = Tail(copyTimeouts)
    /\ UNCHANGED <<clipboard, clipboardWrites, copyListeners>>
    /\ UNCHANGED exceptCopy

\* initCopyButtons, as the next copyListeners
initCopyButtons == [b \in CopyButtons |-> copyListeners[b] + 1]

(***************************************************************************)
(* PROGRESS TRACKER                                                        *)
(***************************************************************************)
\* document.getElementById of a progress item: does the id resolve
ItemExists(itemId) == itemId \in ProgressItemIds \cup OtherElementIds

markComplete(itemId) ==
    /\ TaskReady
    /\ IF ItemExists(itemId)
       THEN /\ currentItems' = currentItems \ {itemId}
            /\ completedItems' = completedItems \cup {itemId}
       ELSE UNCHANGED progressVars
    /\ UNCHANGED exceptProgress

\* the elements that match '.progress-item.current'
CurrentProgressItems == currentItems \cap ProgressItemIds

\* the "completed" class of the target is not looked at
MayBecomeCurrentAlways(itemId) == ItemExists(itemId)

\* if (item && !item.classList.contains('completed'))
MayBecomeCurrent(itemId) == ItemExists(itemId) /\ itemId \notin completedItems

setCurrent(itemId) ==
    /\ TaskReady
    /\ currentItems' =
           IF MayBecomeCurrent(itemId)
           THEN (currentItems \ CurrentProgressItems) \cup {itemId}
           ELSE currentItems \ CurrentProgressItems
    /\ UNCHANGED completedItems
    /\ UNCHANGED exceptProgress

(***************************************************************************)
(* MERKLE TREE ANIMATION                                                   *)
(***************************************************************************)
\* document.getElementById of a merkle container: does the id resolve
ContainerExists(containerId) == containerId \in MerkleContainerIds

animateMerkleTree(containerId) ==
    /\ TaskReady
    /\ IF ContainerExists(containerId)
          /\ merkleAnimationStep < MerkleSteps[containerId]
       THEN /\ merkleVisible' = [merkleVisible EXCEPT ![containerId] =
                                    @ \cup {merkleAnimationStep + 1}]
            /\ merkleAnimationStep' = merkleAnimationStep + 1
       ELSE UNCHANGED merkleVars
    /\ UNCHANGED exceptMerkle

resetMerkleAnimation(containerId) ==
    /\ TaskReady
    /\ IF ContainerExists(containerId)
       THEN /\ merkleAnimationStep' = 0
            /\ merkleVisible' = [merkleVisible EXCEPT ![containerId] = {}]
       ELSE UNCHANGED merkleVars
    /\ UNCHANGED exceptMerkle

(***************************************************************************)
(* BUG HIGHLIGHTING                                                        *)
(***************************************************************************)
\* document.getElementById of a code block: does the id resolve
CodeBlockExists(codeBlockId) == codeBlockId \in CodeBlockIds

highlightBug(codeBlockId, lineNumber) ==
    /\ TaskReady
    /\ IF CodeBlockExists(codeBlockId)
          /\ lineNumber \in 1..CodeLines[codeBlockId]
       THEN bugHighlights' = [bugHighlights EXCEPT ![codeBlockId] =
                                 @ \cup {lineNumber}]
       ELSE UNCHANGED bugHighlights
    /\ UNCHANGED exceptBug

clearBugHighlights(codeBlockId) ==
    /\ TaskReady
    /\ IF CodeBlockExists(codeBlockId)
       THEN bugHighlights' = [bugHighlights EXCEPT ![codeBlockId] = {}]
       ELSE UNCHANGED bugHighlights
    /\ UNCHANGED exceptBug

(***************************************************************************)
(* UTILITY FUNCTIONS                                                       *)
(***************************************************************************)
\* an index of substring: below 0 it is 0, beyond the length it is the length
ClampIndex(i, len) == IF i < 0 THEN 0 ELSE IF i > len THEN len ELSE i

\* String.prototype.substring(start, end): the characters from the smaller
\* to the larger of the two clamped indices
Substring(str, start, end) ==
    LET a == ClampIndex(start, Len(str))
        b == ClampIndex(end, Len(str))
    IN IF a <= b THEN SubSeq(str, a + 1, b) ELSE SubSeq(str, b + 1, a)

Ellipsis == <<".", ".", ".">>

\* hashes no longer than startChars + endChars are kept
TruncateKeepsShort(hash, startChars, endChars) ==
    Len(hash) <= startChars + endChars

\* if (hash.length <= startChars + endChars + 3)
TruncateKeeps(hash, startChars, endChars) ==
    Len(hash) <= startChars + endChars + 3

truncateHash(hash, startChars, endChars) ==
    IF TruncateKeeps(hash, startChars, endChars) THEN hash
    ELSE Substring(hash, 0, startChars) \o Ellipsis
             \o Substring(hash, Len(hash) - endChars, Len(hash))

\* the call of truncateHash on the arguments of truncated returns
TruncateHashCall ==
    /\ ~truncated.returned
    /\ truncated' = [truncated EXCEPT
           !.result = truncateHash(truncated.hash, truncated.startChars,
                                   truncated.endChars),
           !.returned = TRUE]
    /\ UNCHANGED exceptUtil

(***************************************************************************)
(* INITIALIZATION                                                          *)
(***************************************************************************)
\* the handler of DOMContentLoaded; the page has #hash-input and #hash-output
DOMContentLoaded ==
    /\ TaskReady
    /\ ~domLoaded
    /\ domLoaded' = TRUE
    /\ revealListeners' = BindRevealListeners
    /\ copyListeners' = initCopyButtons
    /\ initHashDemo
    /\ UNCHANGED <<revealed, lastClick, clipboard, copyLabel, copyBackground,
                   clipboardWrites, copyTimeouts>>
    /\ UNCHANGED <<nextHandle, timerVars, cmpVars, scoreVars, progressVars,
                   merkleVars, bugVars, utilVars>>

(***************************************************************************)
(* Initial states: the page after the script has run                       *)
(***************************************************************************)
BrowserInit ==
    /\ nextHandle = 1
    /\ domLoaded = FALSE

TimerInit ==
    /\ timerInterval = 0
    /\ timerSeconds = 0
    /\ intervals = {}
    /\ completions = [h \in 1..MaxStarts |-> 0]
    /\ timerDisplay = [d \in TimerDisplayIds |->
                          [text |-> <<>>, color |-> "", animation |-> ""]]

HashInit ==
    /\ ethersLoaded \in BOOLEAN
    /\ hashInput \in InputValues
    /\ hashOutput = [text |-> "", opacity |-> ""]
    /\ hashListeners = 0
    /\ microtasks = <<>>

\* the hash demo of a page with ethers.js whose hash input holds "a"
HashQuiet ==
    /\ ethersLoaded = TRUE
    /\ hashInput = "a"
    /\ hashOutput = [text |-> "", opacity |-> ""]
    /\ hashListeners = 0
    /\ microtasks = <<>>

\* the hash demo of a page whose hash input is empty, as are the inputs of
\* the hash comparison
HashDemoInit ==
    /\ ethersLoaded \in BOOLEAN
    /\ hashInput = ""
    /\ hashOutput = [text |-> "", opacity |-> ""]
    /\ hashListeners = 0
    /\ microtasks = <<>>

CmpInit ==
    /\ cmpInput = <<"", "">>
    /\ cmpOutput = <<[text |-> "", color |-> ""], [text |-> "", color |-> ""]>>
    /\ cmpListeners = 0

\* no call of truncateHash is about to be made
UtilInit ==
    truncated = [hash |-> <<>>, startChars |-> 0, endChars |-> 0,
                 result |-> <<>>, returned |-> TRUE]

ScoreInit ==
    /\ scores = [t \in Teams |-> 0]
    /\ scoreDisplays \in {{}, {"hacker"}, Teams}
    /\ scoreText = [t \in Teams |-> IF t = "hacker" THEN <<>> ELSE <<"0">>]
    /\ animations = <<>>

\* the scoreboard of a page without score displays
ScoreQuiet ==
    /\ scores = [t \in Teams |-> 0]
    /\ scoreDisplays = {}
    /\ scoreText = [t \in Teams |-> <<>>]
    /\ animations = <<>>

CopyInit ==
    /\ clipboard \in {"ok", "fail", "any"}
    /\ copyLabel = [b \in CopyButtons |-> OriginalLabel]
    /\ copyBackground = [b \in CopyButtons |-> ""]
    /\ clipboardWrites = [b \in CopyButtons |-> 0]
    /\ copyTimeouts = <<>>
    /\ copyListeners = [b \in CopyButtons |-> 0]

CopyQuiet == CopyInit /\ clipboard = "any"

RevealInit ==
    /\ revealed = {}
    /\ revealListeners = [id \in RevealAnswerIds |-> 0]
    /\ lastClick = [target |-> "", listeners |-> 0, before |-> FALSE,
                    after |-> FALSE]

ProgressInit ==
    /\ currentItems = {}
    /\ completedItems = {}

MerkleInit ==
    /\ merkleAnimationStep = 0
    /\ merkleVisible = [c \in MerkleContainerIds |-> {}]

BugInit == bugHighlights = [c \in CodeBlockIds |-> {}]

ClassInit == RevealInit /\ ProgressInit /\ MerkleInit /\ BugInit

\* the widgets of a page that has neither scoreboard nor hash comparison, on
\* which nothing has been copied or truncated yet
QuietInit == ScoreQuiet /\ CopyQuiet /\ CmpInit /\ UtilInit

(***************************************************************************)
(* Specification of the countdown timer                                    *)
(***************************************************************************)
Init ==
    BrowserInit /\ TimerInit /\ HashInit /\ QuietInit /\ ClassInit

\* the seconds arguments of resetTimer beyond those of startTimer
ResetSeconds == {9, 10, 59, 60, 61, 125, 600}

StartTimerCall ==
    \E displayId \in TimerDisplayIds \cup {MissingId}, seconds \in 0..MaxSeconds,
       hasCallback \in BOOLEAN : startTimer(displayId, seconds, hasCallback)

TimerTickEvent == \E iv \in intervals : TimerTick(iv)

ResetTimerCall ==
    \E displayId \in TimerDisplayIds \cup {MissingId},
       seconds \in (0..MaxSeconds) \cup ResetSeconds :
        resetTimer(displayId, seconds)

SlideChangedEvent == \E slide \in Slides : SlideChanged(slide)

Next ==
    \/ StartTimerCall
    \/ TimerTickEvent
    \/ stopTimer
    \/ ResetTimerCall
    \/ SlideChangedEvent
    \/ HashContinue

Spec == Init /\ [][Next]_vars

(***************************************************************************)
(* Specification of the scoreboard                                         *)
(***************************************************************************)
ScoreboardInit ==
    /\ BrowserInit /\ TimerInit /\ HashQuiet /\ ScoreInit /\ CopyQuiet
    /\ CmpInit /\ UtilInit /\ ClassInit

UpdateScoreCall ==
    \E team \in {"hacker", "referee"}, points \in {5, -2} :
        updateScore(team, points)

SetScoreCall ==
    \E team \in {"security", "referee"}, points \in {3} : setScore(team, points)

AnimationTickEvent == \E i \in 1..Len(animations) : AnimationTick(i)

ScoreNext ==
    \/ UpdateScoreCall
    \/ SetScoreCall
    \/ resetScores
    \/ AnimationTickEvent

SpecScore == ScoreboardInit /\ [][ScoreNext]_vars

(***************************************************************************)
(* Specification of the copy buttons                                       *)
(***************************************************************************)
CopyButtonsInit ==
    /\ BrowserInit /\ TimerInit /\ HashQuiet /\ ScoreQuiet /\ CopyInit
    /\ CmpInit /\ UtilInit /\ ClassInit

CopyCodeCall == \E button \in CopyButtons : copyCode(button)

ClickCopyButtonEvent == \E button \in CopyButtons : ClickCopyButton(button)

ClipboardResolvedEvent == \E button \in CopyButtons : ClipboardResolved(button)

ClipboardRejectedEvent == \E button \in CopyButtons : ClipboardRejected(button)

CopyNext ==
    \/ DOMContentLoaded
    \/ HashContinue
    \/ CopyCodeCall
    \/ ClickCopyButtonEvent
    \/ ClipboardResolvedEvent
    \/ ClipboardRejectedEvent
    \/ CopyRestore

SpecCopy == CopyButtonsInit /\ [][CopyNext]_vars

(***************************************************************************)
(* Specification of the reveal answers                                     *)
(***************************************************************************)
InitRevealAnswersCall == initRevealAnswers

ClickRevealAnswerEvent ==
    \E elementId \in RevealAnswerIds : ClickRevealAnswer(elementId)

RevealAnswerCall ==
    \E elementId \in RevealAnswerIds \cup {MissingId} : revealAnswer(elementId)

HideAnswerCall ==
    \E elementId \in RevealAnswerIds \cup {MissingId} : hideAnswer(elementId)

RevealAllAnswersCall ==
    \E currentSlide \in Slides \cup {"null"} : revealAllAnswers(currentSlide)

RevealNext ==
    \/ DOMContentLoaded
    \/ HashContinue
    \/ InitRevealAnswersCall
    \/ ClickRevealAnswerEvent
    \/ RevealAnswerCall
    \/ HideAnswerCall
    \/ RevealAllAnswersCall

SpecReveal == Init /\ [][RevealNext]_vars

(***************************************************************************)
(* Specification of the operations that take an element identifier         *)
(***************************************************************************)
PageInit ==
    BrowserInit /\ TimerInit /\ HashQuiet /\ QuietInit /\ ClassInit

\* the seconds arguments of the timer calls of this specification
PageSeconds == {1, 2}

PageStartTimerCall ==
    \E displayId \in TimerDisplayIds \cup {MissingId}, seconds \in PageSeconds :
        startTimer(displayId, seconds, TRUE)

PageResetTimerCall ==
    \E displayId \in TimerDisplayIds \cup {MissingId}, seconds \in PageSeconds :
        resetTimer(displayId, seconds)

MarkCompleteCall ==
    \E itemId \in ProgressItemIds \cup {MissingId} : markComplete(itemId)

SetCurrentCall ==
    \E itemId \in ProgressItemIds \cup {MissingId} : setCurrent(itemId)

AnimateMerkleTreeCall ==
    \E containerId \in MerkleContainerIds \cup {MissingId} :
        animateMerkleTree(containerId)

ResetMerkleAnimationCall ==
    \E containerId \in MerkleContainerIds \cup {MissingId} :
        resetMerkleAnimation(containerId)

HighlightBugCall ==
    \E codeBlockId \in CodeBlockIds \cup {MissingId}, lineNumber \in 0..3 :
        highlightBug(codeBlockId, lineNumber)

ClearBugHighlightsCall ==
    \E codeBlockId \in CodeBlockIds \cup {MissingId} :
        clearBugHighlights(codeBlockId)

PageNext ==
    \/ PageStartTimerCall
    \/ PageResetTimerCall
    \/ RevealAnswerCall
    \/ HideAnswerCall
    \/ MarkCompleteCall
    \/ SetCurrentCall
    \/ AnimateMerkleTreeCall
    \/ ResetMerkleAnimationCall
    \/ HighlightBugCall
    \/ ClearBugHighlightsCall

SpecPage == PageInit /\ [][PageNext]_vars

(***************************************************************************)
(* Specification of the hash demo and the hash comparison                  *)
(***************************************************************************)
HashDemoPageInit ==
    /\ BrowserInit /\ TimerInit /\ HashDemoInit /\ QuietInit /\ ClassInit

InputChangeEvent == \E value \in InputValues : InputChange(value)

InitHashComparisonCall == initHashComparison

CmpInputChangeEvent ==
    \E which \in 1..2, value \in InputValues : CmpInputChange(which, value)

HashNext ==
    \/ DOMContentLoaded
    \/ SlideChangedEvent
    \/ InputChangeEvent
    \/ HashContinue
    \/ InitHashComparisonCall
    \/ CmpInputChangeEvent
    \/ HashesContinue

SpecHash == HashDemoPageInit /\ [][HashNext]_vars

(***************************************************************************)
(* Specification of truncateHash                                           *)
(***************************************************************************)
\* the characters of the hash strings given to truncateHash
HashChars == {"0", "f"}
HashTexts == UNION {[1..n -> HashChars] : n \in 0..MaxHashLen}

\* a call truncateHash(hash, startChars, endChars) is about to be made
TruncateInit ==
    truncated \in [hash : HashTexts, startChars : 0..MaxChars,
                   endChars : 0..MaxChars, result : {<<>>}, returned : {FALSE}]

TruncatePageInit ==
    /\ BrowserInit /\ TimerInit /\ HashQuiet /\ ScoreQuiet /\ CopyQuiet
    /\ CmpInit /\ TruncateInit /\ ClassInit

TruncateNext == TruncateHashCall

SpecTruncate == TruncatePageInit /\ [][TruncateNext]_vars

(***************************************************************************)
(* Specification of the colours of the countdown                           *)
(***************************************************************************)
\* the seconds arguments of the timer calls of this specification
ColorSeconds == {1, 11, 31}

ColorStartTimerCall ==
    \E displayId \in TimerDisplayIds, seconds \in ColorSeconds :
        startTimer(displayId, seconds, FALSE)

ColorResetTimerCall ==
    \E displayId \in TimerDisplayIds, seconds \in ColorSeconds :
        resetTimer(displayId, seconds)

ColorNext ==
    \/ ColorStartTimerCall
    \/ TimerTickEvent
    \/ stopTimer
    \/ ColorResetTimerCall

SpecColor == PageInit /\ [][ColorNext]_vars

(***************************************************************************)
(* Specification of the progress tracker and the merkle animation          *)
(***************************************************************************)
TrackerMarkCompleteCall ==
    \E itemId \in ProgressItemIds \cup OtherElementIds \cup {MissingId} :
        markComplete(itemId)

TrackerSetCurrentCall ==
    \E itemId \in ProgressItemIds \cup OtherElementIds \cup {MissingId} :
        setCurrent(itemId)

TrackerNext ==
    \/ TrackerMarkCompleteCall
    \/ TrackerSetCurrentCall
    \/ AnimateMerkleTreeCall
    \/ ResetMerkleAnimationCall

SpecTracker == PageInit /\ [][TrackerNext]_vars

(***************************************************************************)
(* Properties of the countdown timer                                       *)
(***************************************************************************)
\* the M:SS rendering of s >= 0: minutes, a colon, two digits of seconds
MinutesSeconds(s) ==
    NatToString(s \div 60)
        \o <<":", Digits[((s % 60) \div 10) + 1], Digits[(s % 10) + 1]>>

\* C1: at most one countdown interval is live at any time and it is the one
\* timerInterval names; the remaining seconds are the seconds it was started
\* with less the number of its own ticks (one per elapsed second, no
\* double-decrement); an onComplete is invoked only for the call whose handle
\* timerInterval holds, and timerInterval never goes back to an earlier
\* handle, so the callback of a replaced call is never invoked.
C1_SingleCountdown ==
    /\ [](/\ Cardinality(intervals) <= 1
          /\ \A iv \in intervals :
                /\ iv.id = timerInterval
                /\ timerSeconds = iv.n - iv.ticks)
    /\ [][/\ \A h \in 1..MaxStarts :
                completions'[h] # completions[h] => h = timerInterval
          /\ timerInterval' # timerInterval =>
                timerInterval' = 0 \/ timerInterval' = nextHandle]_vars

\* a countdown that replaced a running one has ticked, and the callback of
\* the replaced call has not been invoked
C1_Witness ==
    \E iv \in intervals :
        iv.replaced # 0 /\ iv.ticks >= 1 /\ completions[iv.replaced] = 0

\* C2: a countdown started with n >= 1 seconds does not end before its n-th
\* tick, and its n-th tick ends it: the handle is none, no interval is left
\* to fire, the display shows TIME'S UP! with the pulse animation, and
\* onComplete has been invoked once; no onComplete is ever invoked twice.
C2_CountdownCompletes ==
    /\ [](\A h \in 1..MaxStarts : completions[h] <= 1)
    /\ [][\A iv \in intervals :
             (iv.n >= 1 /\ iv.id = timerInterval /\ TimerTick(iv)) =>
                 IF iv.ticks + 1 = iv.n
                 THEN /\ timerInterval' = 0
                      /\ intervals' = {}
                      /\ timerDisplay'[iv.display].text = TimesUpText
                      /\ timerDisplay'[iv.display].animation = PulseAnimation
                      /\ completions'[iv.id] = IF iv.hasCallback THEN 1 ELSE 0
                 ELSE /\ iv.ticks + 1 < iv.n
                      /\ timerInterval' = timerInterval
                      /\ intervals' # {}
                      /\ timerDisplay'[iv.display].text # TimesUpText
                      /\ completions' = completions]_vars

\* a countdown with a callback has run to its end
C2_Witness ==
    /\ timerInterval = 0
    /\ intervals = {}
    /\ \E h \in 1..MaxStarts : completions[h] = 1
    /\ \E d \in TimerDisplayIds :
          /\ timerDisplay[d].text = TimesUpText
          /\ timerDisplay[d].animation = PulseAnimation

\* C8: the remaining seconds are never negative.
C8_RemainingNonNegative == timerSeconds >= 0

\* C9: resetTimer(display, s) on a display of the page, s >= 0, leaves no
\* handle and no interval to fire, invokes no callback, sets the remaining
\* seconds to s, the text to M:SS of s, and clears colour and animation.
C9_ResetTimer ==
    [][\A d \in TimerDisplayIds, s \in (0..MaxSeconds) \cup ResetSeconds :
          resetTimer(d, s) =>
              /\ timerInterval' = 0
              /\ intervals' = {}
              /\ completions' = completions
              /\ timerSeconds' = s
              /\ timerDisplay'[d] = [text |-> MinutesSeconds(s),
                                     color |-> "", animation |-> ""]]_vars

\* the timer was reset to 2:05 after a countdown had expired
C9_Witness ==
    /\ timerInterval = 0
    /\ timerSeconds = 125
    /\ \E h \in 1..MaxStarts : completions[h] = 1
    /\ \E d \in TimerDisplayIds :
          timerDisplay[d] = [text |-> <<"2", ":", "0", "5">>,
                             color |-> "", animation |-> ""]

\* C10: stopTimer, alone or in a slide change, leaves no handle and no
\* interval to fire and changes neither the remaining seconds nor the display
\* nor the callbacks' counts; with no handle it changes nothing; while there
\* is no handle no tick can fire, no callback is invoked, and only startTimer
\* brings an interval back.
C10_StopTimer ==
    /\ [](timerInterval = 0 => intervals = {} /\ ~ENABLED TimerTickEvent)
    /\ [][/\ (stopTimer \/ SlideChangedEvent) =>
                /\ timerInterval' = 0
                /\ intervals' = {}
                /\ UNCHANGED <<timerSeconds, timerDisplay, completions>>
          /\ (stopTimer /\ timerInterval = 0) => UNCHANGED vars
          /\ timerInterval = 0 =>
                /\ completions' = completions
                /\ timerInterval' # 0 => StartTimerCall]_vars

\* a countdown was stopped before its end
C10_Witness ==
    /\ timerInterval = 0
    /\ intervals = {}
    /\ nextHandle > 1
    /\ timerSeconds >= 1
    /\ \A h \in 1..MaxStarts : completions[h] = 0
    /\ \E d \in TimerDisplayIds :
          /\ timerDisplay[d].text = MinutesSeconds(timerSeconds)
          /\ timerDisplay[d].animation = ""

(***************************************************************************)
(* Properties of the scoreboard                                            *)
(***************************************************************************)
\* C3: scores always has exactly the keys hacker and security; a step that
\* changes the scores or starts an animation is no updateScore or setScore
\* with another key (such a call changes neither the scores nor the displays
\* and starts no animation); with one of the two keys the call changes the
\* score of that team only, by points for updateScore and to points for
\* setScore.
C3_ScoreKeys ==
    /\ [](DOMAIN scores = Teams)
    /\ [][(scores' # scores \/ nextHandle' # nextHandle) =>
             \A team \in TeamArgs :
                /\ \A points \in {5, -2} :
                      updateScore(team, points) =>
                          /\ team \in Teams
                          /\ scores' = [scores EXCEPT ![team] = @ + points]
                /\ \A points \in {3} :
                      setScore(team, points) =>
                          /\ team \in Teams
                          /\ scores' = [scores EXCEPT ![team] = points]]_vars

\* the hacker score was updated and the security score set
C3_Witness == scores = [t \in Teams |-> IF t = "hacker" THEN 5 ELSE 3]

\* the live animations of the display of a team
AnimationsOf(team) == {i \in 1..Len(animations) : animations[i].team = team}

\* C4: an animation fires at most 20 times, a live animation can always fire,
\* and a score display that has been refreshed and has no live animation
\* shows the stored score of its team.
C4_DisplayedScores ==
    /\ \A i \in 1..Len(animations) : animations[i].step < AnimationSteps
    /\ animations # <<>> => ENABLED AnimationTickEvent
    /\ \A team \in scoreDisplays :
          (nextHandle > 1 /\ AnimationsOf(team) = {}) =>
              scoreText[team] = NumToString(scores[team])

\* the hacker score is 5 - 2; the animation started for it while the one to 5
\* was under way is the only one left and is about to fire for the last time
C4_Witness ==
    /\ scores["hacker"] = 3
    /\ Len(animations) = 1
    /\ animations[1].team = "hacker"
    /\ animations[1].currentValue \in 1..4
    /\ animations[1].targetValue = 3
    /\ animations[1].step = AnimationSteps - 1

(***************************************************************************)
(* Properties of the copy buttons                                          *)
(***************************************************************************)
\* C5: with a clipboard that always succeeds, a button with no clipboard
\* write and no restore timeout under way has its original label and no
\* background.
C5_LabelRestored ==
    clipboard = "ok" =>
        \A b \in CopyButtons :
            CopiesUnderWay(b) = 0 =>
                copyLabel[b] = OriginalLabel /\ copyBackground[b] = ""

(***************************************************************************)
(* Properties of the reveal answers                                        *)
(***************************************************************************)
\* C6: a click on an answer that initRevealAnswers has bound flips its
\* revealed state.
C6_ClickFlips == lastClick.listeners >= 1 => lastClick.after # lastClick.before

(***************************************************************************)
(* Properties of the operations that take an element identifier            *)
(***************************************************************************)
\* a call of one of the ten operations with an identifier of no element
MissingIdCall ==
    \/ \E seconds \in PageSeconds : startTimer(MissingId, seconds, TRUE)
    \/ \E seconds \in PageSeconds : resetTimer(MissingId, seconds)
    \/ revealAnswer(MissingId)
    \/ hideAnswer(MissingId)
    \/ markComplete(MissingId)
    \/ setCurrent(MissingId)
    \/ animateMerkleTree(MissingId)
    \/ resetMerkleAnimation(MissingId)
    \/ \E lineNumber \in 0..3 : highlightBug(MissingId, lineNumber)
    \/ clearBugHighlights(MissingId)

\* C7: a call whose identifier resolves to no element changes nothing.
C7_MissingIdNoOp == [][MissingIdCall => UNCHANGED vars]_vars

(***************************************************************************)
(* Properties of the progress tracker                                      *)
(***************************************************************************)
\* C11: after setCurrent(id) the elements with "current" are the target alone
\* if it exists and is not completed, and none otherwise.
C11_SetCurrent ==
    [][\A itemId \in ProgressItemIds \cup OtherElementIds \cup {MissingId} :
          setCurrent(itemId) =>
              currentItems' = IF ItemExists(itemId) /\ itemId \notin completedItems
                              THEN {itemId} ELSE {}]_vars

\* C20: no element is both current and completed, a completed element stays
\* completed, and setCurrent on a completed element does not make it current.
C20_CompletedStays ==
    /\ [](currentItems \cap completedItems = {})
    /\ [][/\ completedItems \subseteq completedItems'
          /\ \A itemId \in completedItems :
                setCurrent(itemId) => itemId \notin currentItems']_vars

\* item1 has been marked completed and item2 has been made current
C20_Witness == completedItems = {"item1"} /\ currentItems = {"item2"}

(***************************************************************************)
(* Properties of the merkle animation                                      *)
(***************************************************************************)
\* the steps of a container that are not visible
HiddenSteps(c) == (1..MerkleSteps[c]) \ merkleVisible[c]

\* the first of them in document order
FirstHiddenStep(c) == CHOOSE k \in HiddenSteps(c) : \A j \in HiddenSteps(c) : k <= j

\* C12: animateMerkleTree(c) makes the first hidden step of c visible and no
\* other element, and changes no element when c has no hidden step.
C12_NextStepRevealed ==
    [][\A c \in MerkleContainerIds :
          animateMerkleTree(c) =>
              merkleVisible' =
                  IF HiddenSteps(c) = {} THEN merkleVisible
                  ELSE [merkleVisible EXCEPT ![c] = @ \cup {FirstHiddenStep(c)}]]_vars

(***************************************************************************)
(* Properties of a failed copy                                             *)
(***************************************************************************)
\* C13: a rejected clipboard write sets the label of its button to "Failed",
\* and a label that reads "Failed" changes only when the then-callback of
\* another copy on that button runs; no restore timeout changes it.
C13_FailedStays ==
    [][\A b \in CopyButtons :
          /\ ClipboardRejected(b) => copyLabel'[b] = FailedLabel
          /\ (copyLabel[b] = FailedLabel /\ copyLabel'[b] # FailedLabel) =>
                 ClipboardResolved(b)]_vars

(***************************************************************************)
(* Properties of the hash demo and the hash comparison                     *)
(***************************************************************************)
\* C14: every call of computeKeccakHash is fulfilled with a string: 'Error:
\* ethers.js not loaded' without the library, 'Error computing hash' when the
\* library throws on the input, the library's hash of the input otherwise;
\* calls on the same input give the same string.
C14_HashOrErrorString ==
    \A i \in 1..Len(microtasks) :
        LET m == microtasks[i]
        IN /\ ~ethersLoaded => m.hash = "Error: ethers.js not loaded"
           /\ (ethersLoaded /\ KeccakThrows(m.input)) =>
                  m.hash = "Error computing hash"
           /\ (ethersLoaded /\ ~KeccakThrows(m.input)) =>
                  m.hash = Keccak(m.input)
           /\ \A j \in 1..Len(microtasks) :
                  microtasks[j].input = m.input => microtasks[j].hash = m.hash

\* a caller awaits the result of a call on which the library threw
C14_Witness ==
    \E i \in 1..Len(microtasks) :
        /\ KeccakThrows(microtasks[i].input)
        /\ microtasks[i].hash = "Error computing hash"

\* is a continuation of function fn waiting to run
Pending(fn) == \E i \in 1..Len(microtasks) : microtasks[i].fn = fn

\* C17: with updateHash bound and none of its continuations pending, the hash
\* output shows the placeholder at opacity 0.5 if the input is empty and the
\* hash of the input's value at opacity 1 otherwise.
C17_LiveHashShowsCurrent ==
    (hashListeners >= 1 /\ ~Pending("updateHash")) =>
        hashOutput = IF hashInput = ""
                     THEN [text |-> PlaceholderText, opacity |-> "0.5"]
                     ELSE [text |-> computeKeccakHash(hashInput),
                           opacity |-> "1"]

\* updateHash is bound twice, the input has been changed to "b", and the
\* output shows the hash of "b"
C17_Witness ==
    /\ hashListeners = 2
    /\ hashInput = "b"
    /\ microtasks = <<>>
    /\ hashOutput = [text |-> Keccak("b"), opacity |-> "1"]

\* the outputs of the comparison show the hashes of their inputs, in the
\* neutral colour if the two texts are equal and in the contrasting colours
\* if they differ
ComparisonShown ==
    /\ cmpOutput[1].text = computeKeccakHash(cmpInput[1])
    /\ cmpOutput[2].text = computeKeccakHash(cmpInput[2])
    /\ (cmpOutput[1].text = cmpOutput[2].text) <=>
           (cmpOutput[1].color = NeutralColor /\ cmpOutput[2].color = NeutralColor)
    /\ (cmpOutput[1].text # cmpOutput[2].text) <=>
           (/\ cmpOutput[1].color = FirstDiffColor
            /\ cmpOutput[2].color = SecondDiffColor)

\* C18: every update of the comparison that completes leaves the outputs
\* showing the hashes of their inputs in the colours of equal or of unequal
\* hashes, and so they are whenever the comparison is bound and no update is
\* under way.
C18_ComparisonColors ==
    /\ []((cmpListeners >= 1 /\ ~Pending("updateHashes")) => ComparisonShown)
    /\ [][(HashesContinue /\ Head(microtasks).stage = 2) =>
             ComparisonShown']_vars

\* the comparison is bound twice and shows the hashes of "a" and "b" in the
\* contrasting colours
C18_Witness ==
    /\ cmpListeners = 2
    /\ cmpInput = <<"a", "b">>
    /\ microtasks = <<>>
    /\ cmpOutput = <<[text |-> Keccak("a"), color |-> FirstDiffColor],
                     [text |-> Keccak("b"), color |-> SecondDiffColor]>>

(***************************************************************************)
(* Properties of truncateHash                                              *)
(***************************************************************************)
\* C15: truncateHash returns a hash shorter than startChars + endChars + 3
\* unchanged, and a longer one as its first startChars characters, "...",
\* and its last endChars characters.
C15_TruncateHash ==
    LET h == truncated.hash
        s == truncated.startChars
        e == truncated.endChars
    IN /\ (truncated.returned /\ Len(h) < s + e + 3) => truncated.result = h
       /\ (truncated.returned /\ Len(h) > s + e + 3) =>
              truncated.result =
                  SubSeq(h, 1, s) \o <<".", ".", ".">>
                      \o SubSeq(h, Len(h) - e + 1, Len(h))

\* a hash of 7 characters was cut to its first two and its last, which differ
C15_Witness ==
    /\ truncated.returned
    /\ Len(truncated.hash) = 7
    /\ truncated.startChars = 2
    /\ truncated.endChars = 1
    /\ truncated.hash[1] # truncated.hash[7]
    /\ Len(truncated.result) = 6
    /\ truncated.result[6] = truncated.hash[7]

(***************************************************************************)
(* Properties of the colours of the countdown                              *)
(***************************************************************************)
\* C16: the tick from 31 to 30 seconds sets the warning colour; a countdown
\* that has passed that tick shows the warning colour while 30 to 11 seconds
\* remain, each tick that leaves 29 to 11 seconds keeping it; a tick that
\* leaves 10 seconds or fewer sets the danger colour.
C16_ColorThresholds ==
    /\ [](\A iv \in intervals :
             (iv.n > 30 /\ timerSeconds \in 11..30) =>
                 timerDisplay[iv.display].color = WarningColor)
    /\ [][\A iv \in intervals :
             TimerTick(iv) =>
                 LET before == timerDisplay[iv.display].color
                     after == timerDisplay'[iv.display].color
                 IN /\ timerSeconds = 31 => after = WarningColor
                    /\ (timerSeconds' \in 11..29 /\ before = WarningColor) =>
                           after = WarningColor
                    /\ timerSeconds' <= 10 => after = DangerColor]_vars

\* a countdown from 31 seconds has reached 10 and shows the danger colour
C16_Witness ==
    /\ timerSeconds = 10
    /\ \E iv \in intervals :
          /\ iv.n = 31
          /\ iv.ticks = 21
          /\ timerDisplay[iv.display].color = DangerColor

\* C19: while a countdown runs with more than 10 seconds left, its display
\* has neither the danger colour nor the pulse animation.
C19_RunningNotDanger ==
    \A iv \in intervals :
        (iv.id = timerInterval /\ timerSeconds > 10) =>
            /\ timerDisplay[iv.display].color # DangerColor
            /\ timerDisplay[iv.display].animation # PulseAnimation

====
